---- MODULE Spec2Model ----
(***************************************************************************)
(* Model of src/main.py: the request handlers of the admin backend, the    *)
(* relational store they write (tables "User" and "standby_workers") and   *)
(* the two spreadsheet tabs they mirror into ("Sheet1" and "standby").     *)
(*                                                                         *)
(* The store is SQLite reached through the SQLAlchemy ORM, the mirror is   *)
(* a Google sheet reached through gspread.  What the model takes from      *)
(* these libraries is stated at the definition that uses it.               *)
(***************************************************************************)
EXTENDS Integers, Sequences, FiniteSets, TLC

\* ------------------------------------------------------------------ bounds
\* Largest identifier the store hands out in a run.
MaxId == 2
\* Largest number of data rows of a sheet tab in a run.
MaxRows == 2

VARIABLES
  users,      \* table "User": id -> the six columns of the row
  sheet1,     \* tab "Sheet1": its rows, row 1 being the header
  issued,     \* history: the ids create_user has committed so far
  resp,       \* the response of the request handled last
  req,        \* overlapping update_user requests: name -> the handler's frame
  commits,    \* history: the overlapping requests in the order they committed
  workers,    \* table "standby_workers": id -> the seven columns of the row
  standby     \* tab "standby": its rows, row 1 being the header

vars == <<users, sheet1, issued, resp, req, commits, workers, standby>>
overlapVars == <<req, commits>>
standbyVars == <<workers, standby>>

\* ----------------------------------------------------------------- strings
Digit == <<"0", "1", "2", "3", "4", "5", "6", "7", "8", "9">>

\* str(n) of a non-negative int: its decimal numeral.
RECURSIVE str(_)
str(n) == IF n < 10 THEN Digit[n + 1] ELSE str(n \div 10) \o Digit[(n % 10) + 1]

\* ------------------------------------------------------------------- forms
\* The form fields of create_user and update_user.
Fields == {"name", "email", "contact", "outlet_role", "role", "user_status"}

Form0 == [name |-> "Asha", email |-> "asha@x.io", contact |-> "111",
          outlet_role |-> "cafe", role |-> "cook", user_status |-> "Active"]
Form1 == [name |-> "Asha K", email |-> "asha@x.io", contact |-> "111",
          outlet_role |-> "cafe", role |-> "chef", user_status |-> "Active"]
Form2 == [name |-> "Asha", email |-> "ak@x.io", contact |-> "222",
          outlet_role |-> "cafe", role |-> "cook", user_status |-> "Inactive"]
Forms == {Form0, Form1, Form2}

\* --------------------------------------------------------------- the store
Max(S) == CHOOSE m \in S : \A x \in S : x <= m

\* The id SQLite gives an inserted row of a table whose key is declared
\* Column(Integer, primary_key=True): the column is an alias of the rowid and
\* carries no AUTOINCREMENT, so the new id is one more than the largest id
\* in the table now, and 1 in an empty table.
NextId(table) == IF DOMAIN table = {} THEN 1 ELSE Max(DOMAIN table) + 1

\* email is unique=True: a row other than `self` holding `email` makes the
\* INSERT or UPDATE fail with IntegrityError.
EmailTaken(table, email, self) ==
  \E i \in DOMAIN table : i # self /\ table[i].email = email

\* The User object as returned to the caller and read by the mirror code.
UserOf(table, id) == [id |-> id] @@ table[id]

Insert(table, id, rec) == (id :> rec) @@ table

Remove(table, id) == [i \in DOMAIN table \ {id} |-> table[i]]

\* -------------------------------------------------------------- the mirror
\* Row 1 of "Sheet1": update_user reads the key "id" of its records, and the
\* rows written put the User columns in this order.
Sheet1Header ==
  <<"id", "name", "email", "contact", "outlet_role", "role", "user_status">>

\* The row create_user and update_user write: columns A to G.
UserRow(user) ==
  <<str(user.id), user.name, user.email, user.contact,
    user.outlet_role, user.role, user.user_status>>

NoUser == [id |-> 0]

\* A response: the HTTP status code and the body's status, message (or error
\* detail) and results.  exc names the exception that left the handler
\* uncaught, if one did.
Response(op, code, status, message, results) ==
  [op |-> op, code |-> code, status |-> status, message |-> message,
   results |-> results, exc |-> ""]

\* The framework's answer to an exception the handler does not catch.
Crash(op, exc) ==
  [op |-> op, code |-> 500, status |-> "none", message |-> "Internal Server Error",
   results |-> NoUser, exc |-> exc]

\* ---------------------------------------------------------------- handlers
\* create_user with the mirror call wrapped the way add_to_standby_form wraps
\* it: the exception is swallowed and the request reports success.
create_user_swallowing(form, appendOk) ==
  /\ NextId(users) <= MaxId
  /\ Len(sheet1) <= MaxRows
  /\ IF EmailTaken(users, form.email, 0)
     THEN /\ resp' = Crash("create_user", "IntegrityError")
          /\ UNCHANGED <<users, sheet1, issued, overlapVars, standbyVars>>
     ELSE LET id == NextId(users)
              stored == Insert(users, id, form)
              user == UserOf(stored, id)
          IN /\ users' = stored
             /\ issued' = issued \cup {id}
             /\ UNCHANGED <<overlapVars, standbyVars>>
             /\ sheet1' = IF appendOk THEN Append(sheet1, UserRow(user)) ELSE sheet1
             /\ resp' = Response("create_user", 200, "True", "User added", user)

\* POST /add_new_users.  appendOk: whether sheet.append_row returns or raises.
create_user(form, appendOk) ==
  /\ NextId(users) <= MaxId
  /\ Len(sheet1) <= MaxRows
  /\ IF EmailTaken(users, form.email, 0)
     THEN \* db.commit() raises IntegrityError: nothing is stored
          /\ resp' = Crash("create_user", "IntegrityError")
          /\ UNCHANGED <<users, sheet1, issued, overlapVars, standbyVars>>
     ELSE LET id == NextId(users)
              stored == Insert(users, id, form)
              user == UserOf(stored, id)
          IN /\ users' = stored
             /\ issued' = issued \cup {id}
             /\ UNCHANGED <<overlapVars, standbyVars>>
             /\ IF appendOk
                THEN /\ sheet1' = Append(sheet1, UserRow(user))
                     /\ resp' = Response("create_user", 200, "True", "User added", user)
                ELSE /\ sheet1' = sheet1
                     /\ resp' = Crash("create_user", "APIError")

\* An UPDATE that names all six columns whatever was loaded.
CommitUpdate_AllColumns(table, id, loaded, form) == [table EXCEPT ![id] = form]

\* What db.commit() writes for a User loaded as `loaded` whose attributes were
\* then set to `form`: the ORM's UPDATE names only the columns whose new value
\* differs from the loaded one, and all other columns of the row stay as the
\* table has them.
CommitUpdate(table, id, loaded, form) ==
  [table EXCEPT ![id] =
     [f \in Fields |-> IF form[f] # loaded[f] THEN form[f] ELSE table[id][f]]]

\* Whether that UPDATE violates the unique index on email.
UpdateConflicts(table, id, loaded, form) ==
  /\ form.email # loaded.email
  /\ EmailTaken(table, form.email, id)

\* str(row.get("id")) for a row of sheet.get_all_records(): the records are keyed
\* by the cells of row 1, gspread turns a cell holding a decimal numeral into an
\* int, str() writes it back, and a missing key gives str(None).
RecordId(header, row) ==
  LET cols == {c \in 1..Len(header) : header[c] = "id" /\ c <= Len(row)}
      cell == row[CHOOSE c \in cols : TRUE]
  IN IF cols = {} THEN "None"
     ELSE IF \E n \in 0..MaxId : str(n) = cell
          THEN str(CHOOSE n \in 0..MaxId : str(n) = cell)
          ELSE cell

\* The loop without its found-or-not distinction: idx is used as the loop left
\* it, so a scan that matched nothing ends on the last row.
FirstMatch_OrLastRow(rows, id) ==
  LET hits == {idx \in 2..Len(rows) : RecordId(rows[1], rows[idx]) = str(id)}
  IN IF hits # {} THEN CHOOSE idx \in hits : \A j \in hits : idx <= j
     ELSE IF Len(rows) >= 2 THEN Len(rows) ELSE 0

\* The loop without its break: the last matching row is the one written.
FirstMatch_Last(rows, id) ==
  LET hits == {idx \in 2..Len(rows) : RecordId(rows[1], rows[idx]) = str(id)}
  IN IF hits = {} THEN 0 ELSE CHOOSE idx \in hits : \A j \in hits : idx >= j

\* The loop of update_user over enumerate(all_data, start=2): the sheet row idx
\* of the first record whose id is str(user.id), 0 when the loop ends without
\* a match.
FirstMatch(rows, id) ==
  LET hits == {idx \in 2..Len(rows) : RecordId(rows[1], rows[idx]) = str(id)}
  IN IF hits = {} THEN 0 ELSE CHOOSE idx \in hits : \A j \in hits : idx <= j

\* sheet.update("A{idx}:G{idx}", [[...]]).
UpdateRange(rows, idx, user) == [rows EXCEPT ![idx] = UserRow(user)]

MirrorOutcomes == {"ok", "read raises", "update raises"}

\* PUT /update_user/{id}, handled with no other request in flight.
\* mirror: which of the two sheet calls, if any, raises.
update_user(id, form, mirror) ==
  IF id \notin DOMAIN users
  THEN /\ resp' = Response("update_user", 200, "False", "User not found", NoUser)
       /\ UNCHANGED <<users, sheet1, issued, overlapVars, standbyVars>>
  ELSE IF UpdateConflicts(users, id, users[id], form)
  THEN /\ resp' = Crash("update_user", "IntegrityError")
       /\ UNCHANGED <<users, sheet1, issued, overlapVars, standbyVars>>
  ELSE LET stored == CommitUpdate(users, id, users[id], form)
           user == UserOf(stored, id)
           idx == FirstMatch(sheet1, user.id)
       IN /\ users' = stored
          /\ UNCHANGED <<issued, overlapVars, standbyVars>>
          /\ IF mirror = "read raises" \/ (mirror = "update raises" /\ idx # 0)
             THEN /\ sheet1' = sheet1
                  /\ resp' = Crash("update_user", "APIError")
             ELSE /\ sheet1' = IF idx = 0 THEN sheet1 ELSE UpdateRange(sheet1, idx, user)
                  /\ resp' = Response("update_user", 200, "True", "User updated", user)

\* delete_user that also deletes the user's rows from the mirror.
delete_user_mirrored(id) ==
  IF id \notin DOMAIN users
  THEN /\ resp' = Response("delete_user", 200, "False", "User not found", NoUser)
       /\ UNCHANGED <<users, sheet1, issued, overlapVars, standbyVars>>
  ELSE /\ users' = Remove(users, id)
       /\ sheet1' = SelectSeq(sheet1, LAMBDA row : row[1] # str(id))
       /\ resp' = Response("delete_user", 200, "True", "User deleted", [id |-> id])
       /\ UNCHANGED <<issued, overlapVars, standbyVars>>

\* DELETE /delete_user/{id}.
delete_user(id) ==
  IF id \notin DOMAIN users
  THEN /\ resp' = Response("delete_user", 200, "False", "User not found", NoUser)
       /\ UNCHANGED <<users, sheet1, issued, overlapVars, standbyVars>>
  ELSE /\ users' = Remove(users, id)
       /\ resp' = Response("delete_user", 200, "True", "User deleted", [id |-> id])
       /\ UNCHANGED <<sheet1, issued, overlapVars, standbyVars>>

\* ------------------------------------------- overlapping update_user calls
\* update_user is a plain def: the framework runs each call on a worker thread
\* with a database session of its own, so calls overlap between any two of the
\* handler's calls to the store and to the sheet.
Requests == {"A", "B"}

NoResponse == Response("none", 0, "none", "", NoUser)

Idle ==
  [pc |-> "idle", id |-> 0, form |-> Form0, loaded |-> Form0, user |-> NoUser,
   idx |-> 0, resp |-> NoResponse]

Finish(frame, response) == [frame EXCEPT !.pc = "done", !.resp = response]

\* user = db.query(User).filter(User.id == id).first(), and the return of the
\* not-found body.
update_user_query(r, id, form) ==
  /\ req[r].pc = "idle"
  /\ req' = [req EXCEPT ![r] =
       IF id \notin DOMAIN users
       THEN Finish([@ EXCEPT !.id = id, !.form = form],
                   Response("update_user", 200, "False", "User not found", NoUser))
       ELSE [@ EXCEPT !.pc = "loaded", !.id = id, !.form = form,
                      !.loaded = users[id]]]
  /\ UNCHANGED <<users, sheet1, issued, resp, commits, standbyVars>>

\* The six assignments and db.commit().
update_user_commit(r) ==
  LET f == req[r] IN
  /\ f.pc = "loaded"
  /\ IF UpdateConflicts(users, f.id, f.loaded, f.form)
     THEN /\ req' = [req EXCEPT ![r] = Finish(@,
                       Crash("update_user", "IntegrityError"))]
          /\ UNCHANGED <<users, commits>>
     ELSE /\ users' = CommitUpdate(users, f.id, f.loaded, f.form)
          /\ commits' = Append(commits, r)
          /\ req' = [req EXCEPT ![r].pc = "committed"]
  /\ UNCHANGED <<sheet1, issued, resp, standbyVars>>

\* db.refresh(user): the object takes the row as the table has it now.
update_user_refresh(r) ==
  /\ req[r].pc = "committed"
  /\ req' = [req EXCEPT ![r].pc = "refreshed", ![r].user = UserOf(users, req[r].id)]
  /\ UNCHANGED <<users, sheet1, issued, resp, commits, standbyVars>>

\* all_data = sheet.get_all_records() and the scan for the row of user.id.
update_user_read(r, ok) ==
  /\ req[r].pc = "refreshed"
  /\ req' = [req EXCEPT ![r] =
       IF ok
       THEN [@ EXCEPT !.pc = "read", !.idx = FirstMatch(sheet1, req[r].user.id)]
       ELSE Finish(@, Crash("update_user", "APIError"))]
  /\ UNCHANGED <<users, sheet1, issued, resp, commits, standbyVars>>

\* sheet.update(...) of the row found, if one was, and the return.
update_user_write(r, ok) ==
  LET f == req[r] IN
  /\ f.pc = "read"
  /\ IF f.idx # 0 /\ ~ok
     THEN /\ req' = [req EXCEPT ![r] = Finish(@,
                       Crash("update_user", "APIError"))]
          /\ sheet1' = sheet1
     ELSE /\ sheet1' = IF f.idx = 0 THEN sheet1 ELSE UpdateRange(sheet1, f.idx, f.user)
          /\ req' = [req EXCEPT ![r] = Finish(@,
                       Response("update_user", 200, "True", "User updated", f.user))]
  /\ UNCHANGED <<users, issued, resp, commits, standbyVars>>

\* ------------------------------------------------------------ exceptions
\* What a try body or a handler ends with: a returned response or a raised
\* exception.
Return(response) ==
  [raised |-> FALSE, kind |-> "", code |-> 0, detail |-> "", response |-> response]

Raise(kind, code, detail) ==
  [raised |-> TRUE, kind |-> kind, code |-> code, detail |-> detail,
   response |-> NoResponse]

\* str(e): an HTTPException prints as "<status_code>: <detail>".
StrOfException(e) ==
  IF e.kind = "HTTPException" THEN str(e.code) \o ": " \o e.detail ELSE e.detail

\* except Exception as e: raise HTTPException(status_code=500, detail=prefix + str(e)).
\* HTTPException is itself an Exception, so one raised in the try body is caught too.
ExceptException(outcome, prefix) ==
  IF outcome.raised
  THEN Raise("HTTPException", 500, prefix \o StrOfException(outcome))
  ELSE outcome

\* The framework's answer: a raised HTTPException becomes a response with its
\* status code and detail, any other exception a 500.
Respond(op, outcome) ==
  IF ~outcome.raised THEN outcome.response
  ELSE IF outcome.kind = "HTTPException"
       THEN Response(op, outcome.code, "none", outcome.detail, NoUser)
       ELSE Crash(op, outcome.kind)

\* ------------------------------------------------------------------ search
\* GET /api/users/search.  fetchOk: whether requests.get and raise_for_status
\* return.  Once the export is fetched the handler evaluates query.strip():
\* its parameter is named `search` and no `query` is bound anywhere, so the
\* lookup raises NameError inside the try, before the loop over the rows.
search_user_by_email_or_name(search, fetchOk) ==
  LET body == IF ~fetchOk THEN Raise("RequestException", 0, "export unavailable")
              ELSE Raise("NameError", 0, "name 'query' is not defined")
  IN /\ resp' = Respond("search_user_by_email_or_name", ExceptException(body, ""))
     /\ UNCHANGED <<users, sheet1, issued, overlapVars, standbyVars>>

\* ------------------------------------------------------------------ dates
\* Text that the code parses is a sequence of characters.
Chars(digits) == {Digit[n + 1] : n \in digits}

DigitVal(c) == CHOOSE n \in 0..9 : Digit[n + 1] = c

At(s, i) == IF i \in 1..Len(s) THEN s[i] ELSE "<end>"

LeapYear(y) == (y % 4 = 0 /\ y % 100 # 0) \/ y % 400 = 0

DaysIn(y, m) ==
  IF m = 2 THEN (IF LeapYear(y) THEN 29 ELSE 28)
  ELSE IF m \in {4, 6, 9, 11} THEN 30 ELSE 31

NoDate == [ok |-> FALSE, year |-> 0, month |-> 0, day |-> 0]

\* datetime.strptime(s, "%Y-%m-%d").date().  The format compiles to the pattern
\*   (\d\d\d\d)-(1[0-2]|0[1-9]|[1-9])-(3[0-1]|[1-2]\d|0[1-9]|[1-9]| [1-9])
\* matched at the start of s; text left after the match, a year 0 and a day the
\* month does not have are ValueErrors (ok = FALSE).
strptime(s) ==
  LET yearOk == /\ \A i \in 1..4 : At(s, i) \in Chars(0..9)
                /\ At(s, 5) = "-"
      \* the month alternatives, each tried with the "-" that must follow it
      mlen == IF /\ \/ At(s, 6) = "1" /\ At(s, 7) \in Chars(0..2)
                    \/ At(s, 6) = "0" /\ At(s, 7) \in Chars(1..9)
                 /\ At(s, 8) = "-"
              THEN 2
              ELSE IF At(s, 6) \in Chars(1..9) /\ At(s, 7) = "-" THEN 1 ELSE 0
      p == 7 + mlen \* where the day starts
      \* the day alternatives in the pattern's order; the first to match is taken
      dlen == IF \/ At(s, p) = "3" /\ At(s, p + 1) \in Chars(0..1)
                 \/ At(s, p) \in Chars(1..2) /\ At(s, p + 1) \in Chars(0..9)
                 \/ At(s, p) = "0" /\ At(s, p + 1) \in Chars(1..9)
              THEN 2
              ELSE IF At(s, p) \in Chars(1..9) THEN 1
              ELSE IF At(s, p) = " " /\ At(s, p + 1) \in Chars(1..9) THEN 2 ELSE 0
      year == 1000 * DigitVal(s[1]) + 100 * DigitVal(s[2])
                + 10 * DigitVal(s[3]) + DigitVal(s[4])
      month == IF mlen = 2 THEN 10 * DigitVal(s[6]) + DigitVal(s[7])
               ELSE DigitVal(s[6])
      day == IF dlen = 1 THEN DigitVal(s[p])
             ELSE IF s[p] = " " THEN DigitVal(s[p + 1])
             ELSE 10 * DigitVal(s[p]) + DigitVal(s[p + 1])
  IN IF ~yearOk \/ mlen = 0 \/ dlen = 0 THEN NoDate
     ELSE IF p + dlen - 1 # Len(s) THEN NoDate  \* unconverted data remains
     ELSE IF year < 1 \/ day > DaysIn(year, month) THEN NoDate
     ELSE [ok |-> TRUE, year |-> year, month |-> month, day |-> day]

\* The date object of a successful parse.
DateOf(parsed) == [year |-> parsed.year, month |-> parsed.month, day |-> parsed.day]

\* n written in at least `width` digits, zero-filled.
RECURSIVE ZeroFill(_, _)
ZeroFill(n, width) ==
  IF width <= 1 THEN str(n)
  ELSE IF n < 10 THEN "0" \o ZeroFill(n, width - 1) \* leading zero of a short number
  ELSE ZeroFill(n \div 10, width - 1) \o Digit[(n % 10) + 1]

\* date.isoformat(): YYYY-MM-DD.
isoformat(d) ==
  ZeroFill(d.year, 4) \o "-" \o ZeroFill(d.month, 2) \o "-" \o ZeroFill(d.day, 2)

\* ------------------------------------------------------- the standby pool
\* Row 1 of the "standby" tab: one name for each cell add_to_standby_form writes.
StandbyHeader ==
  <<"id", "name", "contact", "roles", "outlet", "user_status", "days_available",
    "availability_date">>

Worker0 == [name |-> "Ravi", contact |-> "900", roles |-> "cook,server",
            outlet |-> "cafe", user_status |-> "Available", days_available |-> 3]
Worker1 == [name |-> "Mina", contact |-> "901", roles |-> "barista",
            outlet |-> "kiosk", user_status |-> "Confirmed", days_available |-> 5]
WorkerForms == {Worker0, Worker1}

\* availability_date as submitted.
DateInputs ==
  { <<"1", "3", "/", "0", "5", "/", "2", "0", "2", "5">>,
    <<"2", "0", "2", "5", "-", "5", "-", "3">>,
    <<"2", "0", "2", "4", "-", "0", "2", "-", "2", "9">>,
    <<"2", "0", "2", "5", "-", "0", "2", "-", "2", "9">>,
    <<"2", "0", "2", "5", "-", "1", "3", "-", "0", "1">>,
    <<"2", "0", "2", "5", "-", "0", "5", "-", "1", "3", " ">>,
    <<"2", "5", "-", "0", "5", "-", "1", "3">>,
    <<>> }

\* The cells of the row add_to_standby_form appends, as the sheet gives them
\* back (days_available, a number, reads back as its numeral).
WorkerRow(id, form, date) ==
  <<str(id), form.name, form.contact, form.roles, form.outlet, form.user_status,
    str(form.days_available), isoformat(date)>>

StandbyOutcomes == {"ok", "open raises", "append raises"}

\* add_to_standby_form without the try around its sheet calls: their exception
\* leaves the handler.
add_to_standby_form_propagating(form, availability_date, mirror) ==
  LET parsed_date == strptime(availability_date) IN
  /\ NextId(workers) <= MaxId
  /\ Len(standby) <= MaxRows
  /\ UNCHANGED <<users, sheet1, issued, overlapVars>>
  /\ IF ~parsed_date.ok
     THEN /\ resp' = Respond("add_to_standby_form",
                       Raise("HTTPException", 400, "Invalid date format. Use YYYY-MM-DD"))
          /\ UNCHANGED standbyVars
     ELSE LET id == NextId(workers)
              worker == form @@ [availability_date |-> DateOf(parsed_date)]
          IN /\ workers' = Insert(workers, id, worker)
             /\ standby' = IF mirror = "ok"
                           THEN Append(standby, WorkerRow(id, form, parsed_date))
                           ELSE standby
             /\ resp' = IF mirror = "ok"
                        THEN Response("add_to_standby_form", 200, "True",
                                      "Worker added to standby",
                                      [id |-> id, availability_date |-> isoformat(parsed_date)]
                                        @@ form)
                        ELSE Crash("add_to_standby_form", "APIError")

\* add_to_standby_form that stores the worker before it looks at the date: a
\* date that does not parse is stored as the null date.
add_to_standby_form_late_check(form, availability_date, mirror) ==
  LET parsed_date == strptime(availability_date)
      id == NextId(workers)
      worker == form @@ [availability_date |-> DateOf(parsed_date)]
  IN
  /\ NextId(workers) <= MaxId
  /\ Len(standby) <= MaxRows
  /\ UNCHANGED <<users, sheet1, issued, overlapVars>>
  /\ workers' = Insert(workers, id, worker)
  /\ IF ~parsed_date.ok
     THEN /\ resp' = Respond("add_to_standby_form",
                       Raise("HTTPException", 400, "Invalid date format. Use YYYY-MM-DD"))
          /\ standby' = standby
     ELSE /\ standby' = IF mirror = "ok"
                        THEN Append(standby, WorkerRow(id, form, parsed_date))
                        ELSE standby
          /\ resp' = Response("add_to_standby_form", 200, "True",
                              "Worker added to standby",
                              [id |-> id, availability_date |-> isoformat(parsed_date)]
                                @@ form)

\* POST /standby/add.  mirror: whether get_google_sheet() or append_row raises.
add_to_standby_form(form, availability_date, mirror) ==
  LET parsed_date == strptime(availability_date) IN
  /\ NextId(workers) <= MaxId
  /\ Len(standby) <= MaxRows
  /\ UNCHANGED <<users, sheet1, issued, overlapVars>>
  /\ IF ~parsed_date.ok
     THEN /\ resp' = Respond("add_to_standby_form",
                       Raise("HTTPException", 400, "Invalid date format. Use YYYY-MM-DD"))
          /\ UNCHANGED standbyVars
     ELSE LET id == NextId(workers)
              worker == form @@ [availability_date |-> DateOf(parsed_date)]
          IN /\ workers' = Insert(workers, id, worker)
             \* the second try: an exception of either call is printed, not raised
             /\ standby' = IF mirror = "ok"
                           THEN Append(standby, WorkerRow(id, form, parsed_date))
                           ELSE standby
             /\ resp' = Response("add_to_standby_form", 200, "True",
                                 "Worker added to standby",
                                 [id |-> id, availability_date |-> isoformat(parsed_date)]
                                   @@ form)

\* sheet.get_all_values(): every row, filled with "" to the width of the widest.
Width(rows) == Max({Len(rows[i]) : i \in 1..Len(rows)})

get_all_values(rows) ==
  [i \in 1..Len(rows) |->
     [c \in 1..Width(rows) |-> IF c <= Len(rows[i]) THEN rows[i][c] ELSE ""]]

\* The sheet row of the first data row whose first cell is worker_id, 0 if none.
FindWorker(rows, worker_id) ==
  LET hits == {idx \in 2..Len(rows) : rows[idx][1] = worker_id}
  IN IF hits = {} THEN 0 ELSE CHOOSE idx \in hits : \A j \in hits : idx <= j

\* GET /standby/{worker_id}.  sheetOk: whether the sheet calls return.
get_worker_by_id(worker_id, sheetOk) ==
  LET rows == get_all_values(standby)
      idx == FindWorker(rows, worker_id)
      body == IF ~sheetOk THEN Raise("APIError", 0, "sheet unavailable")
              ELSE IF idx # 0
              THEN Return(Response("get_worker_by_id", 200, "True", "Worker found",
                                   [row |-> rows[idx]]))
              ELSE Raise("HTTPException", 404, "Worker not found")
  IN /\ resp' = Respond("get_worker_by_id",
                        ExceptException(body, "Failed to fetch data: "))
     /\ UNCHANGED <<users, sheet1, issued, overlapVars, standbyVars>>

\* sheet.update_cell(idx, col, value): the row grows to col if it is shorter.
\* (The marker the handler writes is the text "Assigned" after a check mark.)
update_cell(rows, idx, col, value) ==
  [rows EXCEPT ![idx] =
     [c \in 1..Max({col, Len(@)}) |->
        IF c = col THEN value ELSE IF c <= Len(@) THEN @[c] ELSE ""]]

\* Widest the "standby" tab grows in a run: the columns of the header and MaxMarks more.
MaxMarks == 1

AssignOutcomes == {"ok", "read raises", "update raises"}

\* POST /standby/assign.  sheet: which of the sheet calls, if any, raises.
assign_standby_worker(worker_id, assigned_by, assigned_outlet, sheet) ==
  LET rows == get_all_values(standby)
      headers == rows[1]
      idx == FindWorker(rows, worker_id)
      body == IF sheet = "read raises" \/ (sheet = "update raises" /\ idx # 0)
              THEN Raise("APIError", 0, "sheet unavailable")
              ELSE IF idx # 0
              THEN Return(Response("assign_standby_worker", 200, "True",
                     "Worker " \o worker_id \o " assigned successfully",
                     [worker_id |-> worker_id, assigned_by |-> assigned_by,
                      assigned_outlet |-> assigned_outlet]))
              ELSE Raise("HTTPException", 404, "Worker not found")
  IN /\ ~body.raised => Width(standby) < Len(StandbyHeader) + MaxMarks
     /\ resp' = Respond("assign_standby_worker",
                        ExceptException(body, "Failed to assign: "))
     /\ standby' = IF body.raised THEN standby
                   ELSE update_cell(standby, idx, Len(headers) + 1, "Assigned")
     /\ UNCHANGED <<users, sheet1, issued, overlapVars, workers>>

Init ==
  /\ users = <<>>
  /\ sheet1 = <<Sheet1Header>>
  /\ issued = {}
  /\ resp = NoResponse
  /\ req = [r \in Requests |-> Idle]
  /\ commits = <<>>
  /\ workers = <<>>
  /\ standby = <<StandbyHeader>>

\* Search strings submitted.
Searches == {"asha", "ASHA@X.IO", "Ash", "nobody"}

\* The user handlers, one request at a time.
Next ==
  \/ \E form \in Forms, appendOk \in BOOLEAN : create_user(form, appendOk)
  \/ \E id \in 1..MaxId, form \in Forms, mirror \in MirrorOutcomes :
       update_user(id, form, mirror)
  \/ \E id \in 1..MaxId : delete_user(id)
  \/ \E search \in Searches, fetchOk \in BOOLEAN :
       search_user_by_email_or_name(search, fetchOk)

Spec == Init /\ [][Next]_vars

\* Two update_user requests overlapping each other, over the users created.
NextOverlap ==
  \/ \E form \in Forms, appendOk \in BOOLEAN : create_user(form, appendOk)
  \/ \E r \in Requests, id \in 1..MaxId, form \in Forms : update_user_query(r, id, form)
  \/ \E r \in Requests : update_user_commit(r)
  \/ \E r \in Requests : update_user_refresh(r)
  \/ \E r \in Requests, ok \in BOOLEAN : update_user_read(r, ok)
  \/ \E r \in Requests, ok \in BOOLEAN : update_user_write(r, ok)

SpecOverlap == Init /\ [][NextOverlap]_vars

WorkerIds == {"1", "2", "7", ""}

\* The standby handlers, one request at a time.
NextStandby ==
  \/ \E form \in WorkerForms, date \in DateInputs, mirror \in StandbyOutcomes :
       add_to_standby_form(form, date, mirror)
  \/ \E worker_id \in WorkerIds, sheetOk \in BOOLEAN :
       get_worker_by_id(worker_id, sheetOk)
  \/ \E worker_id \in WorkerIds, sheet \in AssignOutcomes :
       assign_standby_worker(worker_id, "admin", "cafe", sheet)

SpecStandby == Init /\ [][NextStandby]_vars

\* ================================================================= claims
\* The cells of a User row, from the store record.
RowOfStore(id) ==
  <<str(id), users[id].name, users[id].email, users[id].contact,
    users[id].outlet_role, users[id].role, users[id].user_status>>

\* The sheet rows of Sheet1 whose first cell is the numeral of id.
MirrorRowsOf(rows, id) == {idx \in 2..Len(rows) : rows[idx][1] = str(id)}

\* C1: a valid create_user request (its email is not in the store) whose
\* append_row raises fails with the uncaught error, the record it committed
\* stays in the store with the submitted fields, every earlier record is as
\* it was, and the mirror gets no row.
C1_CreateFailsAfterCommit ==
  [][\A form \in Forms :
       (~EmailTaken(users, form.email, 0) /\ create_user(form, FALSE)) =>
         /\ resp'.code = 500 /\ resp'.exc = "APIError"
         /\ \E id \in DOMAIN users' \ DOMAIN users :
              /\ users'[id] = form
              /\ \A j \in DOMAIN users : users'[j] = users[j]
              /\ DOMAIN users' = DOMAIN users \cup {id}
         /\ sheet1' = sheet1]_vars

\* C1 witness: a create_user has just failed on the mirror and its record is
\* in the store with no row in the mirror.
C1_Witness ==
  /\ resp.op = "create_user" /\ resp.exc = "APIError"
  /\ \E id \in DOMAIN users : MirrorRowsOf(sheet1, id) = {}

\* C3: every create_user that stores a record gives it an id greater than
\* every id an earlier create_user assigned and not in the store before, and
\* a successful one returns the id whose numeral is the first cell of the row
\* it appended.
C3_StrictlyIncreasingIds ==
  [][\A form \in Forms, appendOk \in BOOLEAN :
       (create_user(form, appendOk) /\ users' # users) =>
         \E id \in DOMAIN users' \ DOMAIN users :
           /\ \A j \in issued : id > j
           /\ resp'.status = "True" =>
                /\ resp'.results.id = id
                /\ sheet1'[Len(sheet1')][1] = str(resp'.results.id)]_vars

C5_DeleteLeavesMirror ==
  [][\A id \in 1..MaxId :
       delete_user(id) =>
         /\ sheet1' = sheet1
         /\ IF id \in DOMAIN users
            THEN /\ DOMAIN users' = DOMAIN users \ {id}
                 /\ \A j \in DOMAIN users' : users'[j] = users[j]
                 /\ resp'.status = "True"
            ELSE /\ users' = users
                 /\ resp'.code = 200 /\ resp'.status = "False"
                 /\ resp'.message = "User not found"]_vars

\* C5 witness: a delete_user has just removed a user whose row is still in the
\* mirror.
C5_Witness ==
  /\ resp.op = "delete_user" /\ resp.status = "True"
  /\ resp.results.id \notin DOMAIN users
  /\ MirrorRowsOf(sheet1, resp.results.id) # {}

\* str.lower() on the names, emails and search strings of the model.
Lower(x) ==
  CASE x = "Asha" -> "asha"
    [] x = "Asha K" -> "asha k"
    [] x = "Ash" -> "ash"
    [] x = "ASHA@X.IO" -> "asha@x.io"
    [] OTHER -> x

\* The rows of the export that a search string equals in name or email,
\* letter case aside.
SearchHits(rows, search) ==
  {idx \in 2..Len(rows) :
     Lower(search) = Lower(rows[idx][2]) \/ Lower(search) = Lower(rows[idx][3])}

\* C7: with the export fetched, search answers status "True" with the first
\* row whose name or email is the search string (letter case aside), and the
\* status "False" not-found body when there is none.
C7_SearchExactMatch ==
  [][\A search \in Searches :
       search_user_by_email_or_name(search, TRUE) =>
         LET hits == SearchHits(sheet1, search)
             first == CHOOSE idx \in hits : \A j \in hits : idx <= j
         IN IF hits = {}
            THEN resp'.code = 200 /\ resp'.status = "False"
                   /\ resp'.message = "User not found"
            ELSE resp'.code = 200 /\ resp'.status = "True"
                   /\ resp'.results.name = sheet1[first][2]
                   /\ resp'.results.email = sheet1[first][3]]_vars

\* C9: after an update_user that runs alone and returns its success body, the
\* first row of the mirror carrying the id holds the seven fields of the store
\* record, and every other row, later rows of the same id included, is as it was.
C9_FirstRowOverwritten ==
  [][\A id \in 1..MaxId, form \in Forms, mirror \in MirrorOutcomes :
       (resp'.op = "update_user" /\ resp'.status = "True"
          /\ update_user(id, form, mirror)) =>
         LET hits == MirrorRowsOf(sheet1, id) IN
         /\ Len(sheet1') = Len(sheet1)
         /\ \A idx \in 1..Len(sheet1) :
              IF idx \in hits /\ \A j \in hits : idx <= j
              THEN sheet1'[idx] =
                     <<str(id), users'[id].name, users'[id].email, users'[id].contact,
                       users'[id].outlet_role, users'[id].role, users'[id].user_status>>
              ELSE sheet1'[idx] = sheet1[idx]]_vars

\* C9 witness: an update_user has just answered success, the first of two
\* mirror rows of its id holds the store record and the later one does not.
C9_Witness ==
  /\ resp.op = "update_user" /\ resp.status = "True"
  /\ resp.results.id \in DOMAIN users
  /\ \E first, later \in MirrorRowsOf(sheet1, resp.results.id) :
       /\ first < later
       /\ sheet1[first] = RowOfStore(resp.results.id)
       /\ sheet1[later] # sheet1[first]

\* Whether text is written YYYY-MM-DD: four digits, two digits and two digits,
\* joined by "-".
IsYMDFormat(s) ==
  /\ Len(s) = 10
  /\ s[5] = "-" /\ s[8] = "-"
  /\ \A i \in {1, 2, 3, 4, 6, 7, 9, 10} : s[i] \in Chars(0..9)

\* Whether text written YYYY-MM-DD names a day of the calendar.
IsCalendarDate(s) ==
  LET y == 1000 * DigitVal(s[1]) + 100 * DigitVal(s[2]) + 10 * DigitVal(s[3])
             + DigitVal(s[4])
      m == 10 * DigitVal(s[6]) + DigitVal(s[7])
      d == 10 * DigitVal(s[9]) + DigitVal(s[10])
  IN y >= 1 /\ m \in 1..12 /\ d >= 1 /\ d <= DaysIn(y, m)

\* The data rows of the standby tab whose first cell is worker_id.
StandbyRowsOf(rows, worker_id) == {idx \in 2..Len(rows) : rows[idx][1] = worker_id}

\* C2: a standby-add with a well-formed availability_date (a calendar day
\* written YYYY-MM-DD) whose sheet call raises still answers status "True" with
\* the id the store gave the worker, and the worker is in the store with the
\* submitted fields and that date.
C2_StandbyAddSwallowsMirrorError ==
  [][\A form \in WorkerForms, date \in DateInputs,
        mirror \in {"open raises", "append raises"} :
       (/\ resp'.op = "add_to_standby_form"
        /\ IsYMDFormat(date) /\ IsCalendarDate(date)
        /\ add_to_standby_form(form, date, mirror)) =>
         /\ resp'.code = 200 /\ resp'.status = "True"
         /\ resp'.results.id \in DOMAIN workers' \ DOMAIN workers
         /\ \A f \in DOMAIN form : workers'[resp'.results.id][f] = form[f]
         /\ isoformat(workers'[resp'.results.id].availability_date)
              = resp'.results.availability_date
         /\ \A j \in DOMAIN workers : workers'[j] = workers[j]]_vars

\* C2 witness: a standby-add has just answered success for a worker that is in
\* the store and has no row in the standby tab.
C2_Witness ==
  /\ resp.op = "add_to_standby_form" /\ resp.status = "True"
  /\ resp.results.id \in DOMAIN workers
  /\ StandbyRowsOf(standby, str(resp.results.id)) = {}

C8_UnknownWorkerIs404 ==
  [][\A worker_id \in WorkerIds :
       (/\ StandbyRowsOf(standby, worker_id) = {}
        /\ \/ get_worker_by_id(worker_id, TRUE)
           \/ assign_standby_worker(worker_id, "admin", "cafe", "ok")) =>
         /\ resp'.code = 404
         /\ resp'.message = "Worker not found"
         /\ standby' = standby]_vars

\* C10 as stated: once two overlapping update_user requests on one id have
\* both committed, the store record has the fields of the one that committed
\* last.
C10_AsStated ==
  (Len(commits) = 2 /\ req[commits[1]].id = req[commits[2]].id) =>
    users[req[commits[2]].id] = req[commits[2]].form

\* C10 amended: once both have committed, each field of the store record has
\* the last committer's value if that differs from the value that request
\* had read, and the earlier committer's value otherwise; no request that found
\* the record is turned away for what the other did (the only errors are the
\* unique index on email and the sheet's).
C10_LastChangedFieldWins ==
  /\ (Len(commits) = 2 /\ req[commits[1]].id = req[commits[2]].id) =>
       LET earlier == req[commits[1]]
           last == req[commits[2]]
       IN \A f \in Fields :
            users[last.id][f] =
              IF last.form[f] # last.loaded[f] THEN last.form[f] ELSE earlier.form[f]
  /\ \A r \in Requests :
       (req[r].pc = "done" /\ req[r].resp.code # 200) =>
          req[r].resp.exc \in {"IntegrityError", "APIError"}

\* C10 witness: both overlapping requests have answered success, the store has the last
\* committer's fields, and the mirror row of the id has the earlier
\* committer's fields.
C10_Witness ==
  /\ Len(commits) = 2
  /\ \A r \in Requests : req[r].pc = "done" /\ req[r].resp.status = "True"
  /\ req[commits[1]].id = req[commits[2]].id
  /\ LET id == req[commits[2]].id
         earlier == req[commits[1]].form
         last == req[commits[2]].form
     IN /\ users[id] = last
        /\ \E idx \in MirrorRowsOf(sheet1, id) :
             /\ sheet1[idx] = UserRow([id |-> id] @@ earlier)
             /\ sheet1[idx] # RowOfStore(id)
====
